---------------------------- MODULE Spec2Model ----------------------------
(* A model of firmware_tools/ghidra/vxhunter_utility/symbol.py: the demangled-
   signature parser, the symbol-table validator, the symbol materializer and
   the table and buffer-chain walkers.  Python strings are sequences of
   one-character strings; Python's None is the empty tuple and a present
   value v is the one-element tuple <<v>>. *)
EXTENDS Integers, Sequences, FiniteSets, TLC

(* ------------------------------------------------------------------ *)
(* Python values                                                      *)
(* ------------------------------------------------------------------ *)
None == <<>>

Some(v) == <<v>>

Min(a, b) == IF a < b THEN a ELSE b

Max(a, b) == IF a > b THEN a ELSE b

\* Python's s[a:b] for any integers a, b (negative ones count from the end).
PySlice(s, a, b) ==
    LET n  == Len(s)
        lo == IF a < 0 THEN Max(a + n, 0) ELSE Min(a, n)
        hi == IF b < 0 THEN Max(b + n, 0) ELSE Min(b, n)
    IN  IF lo >= hi THEN <<>> ELSE SubSeq(s, lo + 1, hi)

\* Python's s[i] for an index i that is in range (negative ones count from the end).
PyAt(s, i) == IF i < 0 THEN s[i + Len(s) + 1] ELSE s[i + 1]

(* ------------------------------------------------------------------ *)
(* Module constants                                                   *)
(* ------------------------------------------------------------------ *)
UpperLetters == <<"A", "B", "C", "D", "E", "F", "G", "H", "I", "J", "K", "L", "M", "N", "O", "P", "Q", "R", "S", "T", "U", "V", "W", "X", "Y", "Z">>

LowerLetters == <<"a", "b", "c", "d", "e", "f", "g", "h", "i", "j", "k", "l", "m", "n", "o", "p", "q", "r", "s", "t", "u", "v", "w", "x", "y", "z">>

Range(s) == {s[i] : i \in 1..Len(s)}

function_name_chaset ==
    Range(LowerLetters) \cup Range(UpperLetters)
    \cup {"0", "1", "2", "3", "4", "5", "6", "7", "8", "9"}
    \cup {"_", ":", ".", "<", ">", ",", "*"}
    \cup {"(", ")", "~", "+", "-", "=", "/", "%"}

ghidra_builtin_types == {
    <<"b", "o", "o", "l">>,
    <<"b", "y", "t", "e">>,
    <<"c", "o", "m", "p", "l", "e", "x", "1", "6">>,
    <<"c", "o", "m", "p", "l", "e", "x", "3", "2">>,
    <<"c", "o", "m", "p", "l", "e", "x", "8">>,
    <<"d", "o", "u", "b", "l", "e", "c", "o", "m", "p", "l", "e", "x">>,
    <<"d", "w", "f", "e", "n", "c">>,
    <<"d", "w", "o", "r", "d">>,
    <<"f", "i", "l", "e", "t", "i", "m", "e">>,
    <<"f", "l", "o", "a", "t", "1", "0">>,
    <<"f", "l", "o", "a", "t", "1", "6">>,
    <<"f", "l", "o", "a", "t", "2">>,
    <<"f", "l", "o", "a", "t", "4">>,
    <<"f", "l", "o", "a", "t", "8">>,
    <<"f", "l", "o", "a", "t", "c", "o", "m", "p", "l", "e", "x">>,
    <<"g", "u", "i", "d">>,
    <<"i", "m", "a", "g", "e", "b", "a", "s", "e", "o", "f", "f", "s", "e", "t", "3", "2">>,
    <<"i", "m", "a", "g", "e", "b", "a", "s", "e", "o", "f", "f", "s", "e", "t", "6", "4">>,
    <<"i", "n", "t", "1", "6">>,
    <<"i", "n", "t", "3">>,
    <<"i", "n", "t", "5">>,
    <<"i", "n", "t", "6">>,
    <<"i", "n", "t", "7">>,
    <<"l", "o", "n", "g">>,
    <<"l", "o", "n", "g", "d", "o", "u", "b", "l", "e">>,
    <<"l", "o", "n", "g", "d", "o", "u", "b", "l", "e", "c", "o", "m", "p", "l", "e", "x">>,
    <<"l", "o", "n", "g", "l", "o", "n", "g">>,
    <<"m", "a", "c", "t", "i", "m", "e">>,
    <<"p", "r", "e", "l", "3", "1">>,
    <<"q", "w", "o", "r", "d">>,
    <<"s", "b", "y", "t", "e">>,
    <<"s", "c", "h", "a", "r">>,
    <<"s", "d", "w", "o", "r", "d">>,
    <<"s", "e", "g", "m", "e", "n", "t", "e", "d", "c", "o", "d", "e", "a", "d", "d", "r", "e", "s", "s">>,
    <<"s", "h", "i", "f", "t", "e", "d", "a", "d", "d", "r", "e", "s", "s">>,
    <<"s", "q", "w", "o", "r", "d">>,
    <<"s", "w", "o", "r", "d">>,
    <<"u", "c", "h", "a", "r">>,
    <<"u", "i", "n", "t">>,
    <<"u", "i", "n", "t", "1", "6">>,
    <<"u", "i", "n", "t", "3">>,
    <<"u", "i", "n", "t", "5">>,
    <<"u", "i", "n", "t", "6">>,
    <<"u", "i", "n", "t", "7">>,
    <<"u", "l", "o", "n", "g">>,
    <<"u", "l", "o", "n", "g", "l", "o", "n", "g">>,
    <<"u", "n", "d", "e", "f", "i", "n", "e", "d">>,
    <<"u", "n", "d", "e", "f", "i", "n", "e", "d", "1">>,
    <<"u", "n", "d", "e", "f", "i", "n", "e", "d", "2">>,
    <<"u", "n", "d", "e", "f", "i", "n", "e", "d", "3">>,
    <<"u", "n", "d", "e", "f", "i", "n", "e", "d", "4">>,
    <<"u", "n", "d", "e", "f", "i", "n", "e", "d", "5">>,
    <<"u", "n", "d", "e", "f", "i", "n", "e", "d", "6">>,
    <<"u", "n", "d", "e", "f", "i", "n", "e", "d", "7">>,
    <<"u", "n", "d", "e", "f", "i", "n", "e", "d", "8">>,
    <<"u", "s", "h", "o", "r", "t">>,
    <<"w", "c", "h", "a", "r", "_", "t">>,
    <<"w", "c", "h", "a", "r", "1", "6">>,
    <<"w", "c", "h", "a", "r", "3", "2">>,
    <<"w", "o", "r", "d">>
}

function_name_key_words == {<<"b", "z", "e", "r", "o">>, <<"u", "s", "r", "I", "n", "i", "t">>, <<"b", "f", "i", "l", "l">>}

need_create_function == {4, 5}

MaxFuncNameLen == 512

(* ------------------------------------------------------------------ *)
(* State                                                              *)
(* ------------------------------------------------------------------ *)
VARIABLES
    demangle_string,  \* the argument of demangle_function
    parsePc,          \* "call", "returned" or "raised" ("idle" outside the parser runs)
    parseOut          \* what demangle_function returned

parseVars == <<demangle_string, parsePc, parseOut>>

(* ------------------------------------------------------------------ *)
(* check_is_func_name and demangle_function                           *)
(* ------------------------------------------------------------------ *)
LowerChar(c) ==
    IF \E i \in 1..Len(UpperLetters) : UpperLetters[i] = c
    THEN LowerLetters[CHOOSE i \in 1..Len(UpperLetters) : UpperLetters[i] = c]
    ELSE c

\* str.lower()
Lower(s) == [i \in 1..Len(s) |-> LowerChar(s[i])]

check_is_func_name(function_name) ==
    IF Len(function_name) > MaxFuncNameLen THEN FALSE
    ELSE IF \E i \in 1..Len(function_name) : function_name[i] \notin function_name_chaset
         THEN FALSE
    ELSE IF Lower(function_name) \in ghidra_builtin_types THEN FALSE
    ELSE TRUE

\* The "get parameters" loop as it would run without counting nested
\* parentheses: it stops at the first "(" it meets.
RECURSIVE ParenScanFlat(_, _, _)
ParenScanFlat(s, index, parentheses_count) ==
    IF index < 0 THEN index
    ELSE IF PyAt(s, index) = "(" THEN index - 1
    ELSE ParenScanFlat(s, index - 1, parentheses_count)

\* The "get parameters" loop: the index it leaves, scanning back from `index`
\* with `parentheses_count` open.
RECURSIVE ParenScan(_, _, _)
ParenScan(s, index, parentheses_count) ==
    IF index < 0 THEN index
    ELSE LET count == IF PyAt(s, index) = ")" THEN parentheses_count + 1
                      ELSE IF PyAt(s, index) = "(" THEN parentheses_count - 1
                      ELSE parentheses_count
         IN  IF count = 0 THEN index - 1 ELSE ParenScan(s, index - 1, count)

\* Where the "get function name" loop next does more than `index -= 1`: the
\* nearest position at or below `index` that holds a space or is position 0.
NextStop(s, index) ==
    LET stops == {k \in 0..index : k = 0 \/ PyAt(s, k) = " "}
    IN  CHOOSE k \in stops : \A j \in stops : j <= k

\* The "get function name" loop: the index and function_name_end it leaves and
\* the name it found.
RECURSIVE NameScan(_, _, _)
NameScan(s, index, function_name_end) ==
    IF index < 0
    THEN [index |-> index, function_name_end |-> function_name_end, function_name |-> None]
    ELSE IF PyAt(s, index) = " "
    THEN LET temp_data == PySlice(s, index + 1, function_name_end + 1)
         IN  IF temp_data = <<"*">> THEN NameScan(s, index - 1, index)
             ELSE IF check_is_func_name(temp_data)
             THEN [index |-> index, function_name_end |-> function_name_end,
                   function_name |-> Some(temp_data)]
             ELSE NameScan(s, index - 1, index)
    ELSE IF index = 0
    THEN LET temp_data == IF PyAt(s, function_name_end) = " "
                          THEN PySlice(s, index, function_name_end)
                          ELSE PySlice(s, index, function_name_end + 1)
         IN  [index |-> index, function_name_end |-> function_name_end,
              function_name |-> IF check_is_func_name(temp_data) THEN Some(temp_data)
                                ELSE None]
    ELSE NameScan(s, NextStop(s, index), function_name_end)

\* demangle_function: raised is TRUE when the call ends in IndexError (the
\* empty string has no [-1]).
demangle_function(s) ==
    IF Len(s) = 0
    THEN [raised |-> TRUE, function_return |-> None, function_name |-> None,
          function_parameters |-> <<>>]
    ELSE LET last  == Len(s) - 1
             index == IF PyAt(s, -1) = ")" THEN ParenScan(s, last, 0) ELSE last
             scan  == NameScan(s, index, index)
             function_name_start == scan.index
         IN  [raised |-> FALSE,
              function_return |-> IF scan.index # 0
                                  THEN Some(PySlice(s, 0, function_name_start))
                                  ELSE None,
              function_name |-> scan.function_name,
              function_parameters |->
                  PySlice(s, scan.function_name_end + 1, Len(s))]

(* ------------------------------------------------------------------ *)
(* The parser's runs: one call of demangle_function on a signature     *)
(* ------------------------------------------------------------------ *)
MaxSigLen == 5

SigAlphabet == {"a", " ", "*", "(", ")", "#"}

Rep(c, n) == [i \in 1..n |-> c]

ReturnTypes == {
    <<>>,
    <<"i", "n", "t">>,
    <<"c", "h", "a", "r", "*">>,
    <<"c", "h", "a", "r", " ", "*">>,
    <<"u", "n", "s", "i", "g", "n", "e", "d", " ", "l", "o", "n", "g">>
}

NameTokens == {
    <<"m", "a", "i", "n">>,
    <<"F", "o", "o", ":", ":", "B", "a", "r">>,
    <<"o", "p", "e", "r", "a", "t", "o", "r", "(", ")">>,
    <<"d", "w", "o", "r", "d">>,
    <<"D", "W", "o", "r", "d">>,
    <<"i", "n", "t", "3">>,
    <<"a", "#">>,
    <<"*">>,
    Rep("a", MaxFuncNameLen),
    Rep("a", MaxFuncNameLen + 1)
}

ParamLists == {
    <<>>,
    <<"(", ")">>,
    <<"(", "i", "n", "t", ",", " ", "c", "h", "a", "r", "*", ")">>,
    <<"(", "v", "o", "i", "d", " ", "(", "*", ")", "(", ")", ")">>
}

Signatures ==
    UNION {[1..n -> SigAlphabet] : n \in 0..MaxSigLen}
    \cup {r \o <<" ">> \o n \o p : r \in ReturnTypes, n \in NameTokens, p \in ParamLists}
    \cup {n \o p : n \in NameTokens, p \in ParamLists}

\* parseOut before the call returns.
NoParse ==
    [raised |-> FALSE, function_return |-> None, function_name |-> None,
     function_parameters |-> <<>>]

ParseIdle ==
    /\ demangle_string = <<>>
    /\ parsePc = "idle"
    /\ parseOut = NoParse

ParseInit ==
    /\ demangle_string \in Signatures
    /\ parsePc = "call"
    /\ parseOut = NoParse

DemangleCall ==
    /\ parsePc = "call"
    /\ parseOut' = demangle_function(demangle_string)
    /\ parsePc' = IF parseOut'.raised THEN "raised" ELSE "returned"
    /\ UNCHANGED demangle_string

(* ------------------------------------------------------------------ *)
(* is_vx_symbol_file                                                  *)
(* ------------------------------------------------------------------ *)
VARIABLES
    file_data,      \* the buffer: a sequence of bytes
    is_big_endian,  \* the endianness argument
    vxPc,           \* "call", "returned" or "raised"
    vxOut           \* the returned boolean

vxVars == <<file_data, is_big_endian, vxPc, vxOut>>

\* ord() of a letter.
Ord(c) ==
    IF \E i \in 1..Len(LowerLetters) : LowerLetters[i] = c
    THEN 96 + (CHOOSE i \in 1..Len(LowerLetters) : LowerLetters[i] = c)
    ELSE 64 + (CHOOSE i \in 1..Len(UpperLetters) : UpperLetters[i] = c)

\* The bytes of a str.
Bytes(s) == [i \in 1..Len(s) |-> Ord(s[i])]

\* `pattern in data` on byte strings.
Contains(data, pattern) ==
    \E i \in 0..(Len(data) - Len(pattern)) :
        \A k \in 1..Len(pattern) : data[i + k] = pattern[k]

\* struct.unpack('>I', b)[0] on four bytes.
RECURSIVE UnpackBigEndian(_)
UnpackBigEndian(b) ==
    IF Len(b) = 0 THEN 0
    ELSE UnpackBigEndian(SubSeq(b, 1, Len(b) - 1)) * 256 + b[Len(b)]

\* struct.unpack('<I', b)[0] on four bytes.
RECURSIVE UnpackLittleEndian(_)
UnpackLittleEndian(b) ==
    IF Len(b) = 0 THEN 0
    ELSE b[1] + 256 * UnpackLittleEndian(SubSeq(b, 2, Len(b)))

\* is_vx_symbol_file: raised is TRUE when struct.unpack is given fewer than four
\* bytes (struct.error).
\* is_vx_symbol_file as it would be if it ignored is_big_endian.
is_vx_symbol_file_big(data, big_endian) ==
    IF \E key_function \in function_name_key_words : ~Contains(data, Bytes(key_function))
    THEN [raised |-> FALSE, value |-> FALSE]
    ELSE IF Len(PySlice(data, 0, 4)) # 4
    THEN [raised |-> TRUE, value |-> FALSE]
    ELSE [raised |-> FALSE, value |-> UnpackBigEndian(PySlice(data, 0, 4)) = Len(data)]

is_vx_symbol_file(data, big_endian) ==
    IF \E key_function \in function_name_key_words : ~Contains(data, Bytes(key_function))
    THEN [raised |-> FALSE, value |-> FALSE]
    ELSE IF Len(PySlice(data, 0, 4)) # 4
    THEN [raised |-> TRUE, value |-> FALSE]
    ELSE IF big_endian
    THEN [raised |-> FALSE, value |-> UnpackBigEndian(PySlice(data, 0, 4)) = Len(data)]
    ELSE [raised |-> FALSE, value |-> UnpackLittleEndian(PySlice(data, 0, 4)) = Len(data)]

\* The buffers tried: four length-prefix bytes, then up to MaxChunks pieces.
MaxChunks == 3

Chunks == function_name_key_words \cup {<<"b">>, <<"u", "s", "r">>}

RECURSIVE Concat(_)
Concat(ss) == IF Len(ss) = 0 THEN <<>> ELSE ss[1] \o Concat(Tail(ss))

Bodies == {Concat(cs) : cs \in UNION {[1..n -> Chunks] : n \in 0..MaxChunks}}

\* Each prefix byte is 0, 1 or the length of the whole buffer.
Buffers ==
    UNION {{pre \o Bytes(body) : pre \in [1..4 -> {0, 1, 4 + Len(body)}]} : body \in Bodies}

VxIdle ==
    /\ file_data = <<>>
    /\ is_big_endian = TRUE
    /\ vxPc = "idle"
    /\ vxOut = FALSE

VxInit ==
    /\ file_data \in Buffers
    /\ is_big_endian \in BOOLEAN
    /\ vxPc = "call"
    /\ vxOut = FALSE

IsVxSymbolFileCall ==
    /\ vxPc = "call"
    /\ LET r == is_vx_symbol_file(file_data, is_big_endian)
       IN  /\ vxOut' = r.value
           /\ vxPc' = IF r.raised THEN "raised" ELSE "returned"
    /\ UNCHANGED <<file_data, is_big_endian>>

(* ------------------------------------------------------------------ *)
(* create_struct and fix_cl_buff_chain                                *)
(* ------------------------------------------------------------------ *)
VARIABLES
    clVersion,          \* the vx_version argument
    clMapped,           \* the addresses is_address_in_current_program accepts
    clLink,             \* getInt at each address: the buffer's forward link
    cl_buff_addr,       \* the argument: where the chain starts
    next_cl_buff_addr,  \* the loop's position
    clPc,               \* "call", "loop" or "returned"
    clTyped             \* per address, how often createData(vx_5_cl_buff) ran there

chainVars ==
    <<clVersion, clMapped, clLink, cl_buff_addr, next_cl_buff_addr, clPc, clTyped>>

MaxAddr == 3

\* The walker is not followed further once it has typed one address this often.
MaxVisits == 2

ClAddresses == 0..MaxAddr

\* create_struct(data_address, vx_5_cl_buff): the createData counts it leaves.
create_struct(typed, data_address, mapped) ==
    IF data_address \notin mapped THEN typed
    ELSE [typed EXCEPT ![data_address] = @ + 1]

\* The loop's pass as it would be without the comparison to cl_buff_addr.
ChainLoopBodyNoStartCheck(next, start, typed, mapped, link) ==
    IF next \in mapped
    THEN [typed |-> create_struct(typed, next, mapped), next |-> link[next],
          returned |-> FALSE]
    ELSE [typed |-> typed, next |-> next, returned |-> TRUE]

\* One pass of the while loop of fix_cl_buff_chain at `next`.
ChainLoopBody(next, start, typed, mapped, link) ==
    IF next \in mapped
    THEN LET after == link[next]
         IN  [typed |-> create_struct(typed, next, mapped),
              next |-> after,
              returned |-> (after = start)]
    ELSE [typed |-> typed, next |-> next, returned |-> TRUE]

ChainIdle ==
    /\ clVersion = 5
    /\ clMapped = {}
    /\ clLink = [a \in ClAddresses |-> 0]
    /\ cl_buff_addr = 0
    /\ next_cl_buff_addr = 0
    /\ clPc = "idle"
    /\ clTyped = [a \in ClAddresses |-> 0]

\* Memory outside the program reads as 0.
ChainInit ==
    /\ clVersion \in {5, 6}
    /\ clMapped \in SUBSET ClAddresses
    /\ clLink \in [ClAddresses -> ClAddresses]
    /\ \A a \in ClAddresses \ clMapped : clLink[a] = 0
    /\ cl_buff_addr \in ClAddresses
    /\ next_cl_buff_addr = 0
    /\ clPc = "call"
    /\ clTyped = [a \in ClAddresses |-> 0]

\* The version and null checks, and next_cl_buff_addr = cl_buff_addr.
FixClBuffChainEnter ==
    /\ clPc = "call"
    /\ IF clVersion = 5 /\ cl_buff_addr # 0
       THEN /\ next_cl_buff_addr' = cl_buff_addr
            /\ clPc' = "loop"
       ELSE /\ clPc' = "returned"
            /\ UNCHANGED next_cl_buff_addr
    /\ UNCHANGED <<clVersion, clMapped, clLink, cl_buff_addr, clTyped>>

FixClBuffChainStep ==
    /\ clPc = "loop"
    /\ clTyped[next_cl_buff_addr] < MaxVisits
    /\ LET r == ChainLoopBody(next_cl_buff_addr, cl_buff_addr, clTyped, clMapped, clLink)
       IN  /\ clTyped' = r.typed
           /\ next_cl_buff_addr' = r.next
           /\ clPc' = IF r.returned THEN "returned" ELSE "loop"
    /\ UNCHANGED <<clVersion, clMapped, clLink, cl_buff_addr>>

(* ------------------------------------------------------------------ *)
(* The demangler and demangled_symbol                                 *)
(* ------------------------------------------------------------------ *)
VARIABLES
    can_demangle,   \* common.can_demangle: whether a demangler was loaded
    demangler,      \* demangler.demangle: its outcome for each (string, hint) asked
    symbol_string,  \* the argument of demangled_symbol
    demPc,          \* "call" or "returned"
    demOut          \* what demangled_symbol returned, and the stages it ran

envVars == <<can_demangle, demangler>>

demVars == <<symbol_string, demPc, demOut>>

\* What demangler.demangle does on one query: it returns None, returns an
\* object whose getSignature(False) is `signature`, or raises.
DemangleNone == [kind |-> "none", signature |-> None]

DemangleRaises(exception) == [kind |-> exception, signature |-> None]

DemangledObject(signature) == [kind |-> "object", signature |-> signature]

SigFoo == <<"v", "o", "i", "d", " ", "F", "o", "o", ":", ":", "f", "(", "i", "n", "t", ")">>

SigDword == <<"d", "w", "o", "r", "d">>

DemangleOutcomes == {
    DemangleNone,
    DemangleRaises("DemangledException"),
    DemangleRaises("java.lang.Exception"),
    DemangledObject(Some(SigFoo)),
    DemangledObject(Some(SigDword)),
    DemangledObject(None)
}

\* Python's truth value of an optional string.
Truthy(v) == v # None /\ v[1] # <<>>

\* The three queries demangled_symbol can make for a string.
QueriesOf(s) == {<<s, TRUE>>, <<s, FALSE>>, <<PySlice(s, 1, Len(s)), FALSE>>}

\* demangled_symbol as it would be with each stage in a try block of its own.
demangled_symbol_staged(s, can, env) ==
    IF ~can THEN [value |-> None, stages |-> <<>>]
    ELSE LET first  == env[<<s, TRUE>>]
             second == env[<<s, FALSE>>]
             third  == env[<<PySlice(s, 1, Len(s)), FALSE>>]
         IN  IF first.kind = "object"
             THEN [value |-> first.signature, stages |-> <<1>>]
             ELSE IF second.kind = "object"
             THEN [value |-> second.signature, stages |-> <<1, 2>>]
             ELSE IF third.kind = "object"
             THEN [value |-> third.signature, stages |-> <<1, 2, 3>>]
             ELSE [value |-> None, stages |-> <<1, 2, 3>>]

\* demangled_symbol: the value it returns and the stages (1: with the prefix
\* hint, 2: without, 3: first character stripped) it ran, in order.
demangled_symbol(s, can, env) ==
    IF ~can THEN [value |-> None, stages |-> <<>>]
    ELSE LET first  == env[<<s, TRUE>>]
             second == env[<<s, FALSE>>]
             \* sym_demangled and the stages run when the first try block is left
             pass1 ==
                 IF first.kind \in {"DemangledException", "java.lang.Exception"}
                 THEN [sym_demangled |-> DemangleNone, stages |-> <<1>>]
                 ELSE IF first.kind = "object"
                 THEN [sym_demangled |-> first, stages |-> <<1>>]
                 ELSE IF second.kind \in {"DemangledException", "java.lang.Exception"}
                 THEN [sym_demangled |-> DemangleNone, stages |-> <<1, 2>>]
                 ELSE [sym_demangled |-> second, stages |-> <<1, 2>>]
             third == env[<<PySlice(s, 1, Len(s)), FALSE>>]
             pass2 ==
                 IF pass1.sym_demangled.kind = "object" THEN pass1
                 ELSE IF third.kind \in {"DemangledException", "java.lang.Exception"}
                 THEN [sym_demangled |-> DemangleNone, stages |-> pass1.stages \o <<3>>]
                 ELSE [sym_demangled |-> third, stages |-> pass1.stages \o <<3>>]
         IN  [value |-> IF pass2.sym_demangled.kind = "object"
                        THEN pass2.sym_demangled.signature
                        ELSE None,
              stages |-> pass2.stages]

NameMangled == <<"_", "f", "_", "_", "3", "F", "o", "o", "i">>

NamePlain == <<"m", "a", "i", "n">>

SymbolStrings == {NameMangled, NamePlain, <<"_">>, <<>>}

\* The demanglers tried on a string: every outcome for each of its queries.
DemanglersFor(strings) ==
    [UNION {QueriesOf(s) : s \in strings} -> DemangleOutcomes]

NoDemangler == [q \in {} |-> DemangleNone]

EnvIdle ==
    /\ can_demangle = FALSE
    /\ demangler = NoDemangler

DemIdle ==
    /\ symbol_string = <<>>
    /\ demPc = "idle"
    /\ demOut = [value |-> None, stages |-> <<>>]

DemInit ==
    /\ symbol_string \in SymbolStrings
    /\ can_demangle \in BOOLEAN
    /\ demangler \in DemanglersFor({symbol_string})
    /\ demPc = "call"
    /\ demOut = [value |-> None, stages |-> <<>>]

DemangledSymbolCall ==
    /\ demPc = "call"
    /\ demOut' = demangled_symbol(symbol_string, can_demangle, demangler)
    /\ demPc' = "returned"
    /\ UNCHANGED <<symbol_string, envVars>>

(* ------------------------------------------------------------------ *)
(* The address space (the Ghidra program) and add_symbol              *)
(* ------------------------------------------------------------------ *)
VARIABLES
    prog,   \* the program database: data, instructions, functions, labels, comments
    strAt   \* the NUL-terminated string in memory at each symbol-name address

progVars == <<prog, strAt>>

\* The most records a symbol table holds.
MaxRecords == 2

\* Where symbol names and symbols live: the k-th record of a table has its
\* symbol at 4096 + 16 * (k - 1).
NameAddresses == {256, 272}

DestAddresses == {4096 + 16 * k : k \in 0..(MaxRecords - 1)}

HexDigits == <<"0", "1", "2", "3", "4", "5", "6", "7", "8", "9", "A", "B", "C", "D", "E", "F">>

\* "{:X}".format(n), at least `width` digits wide.
RECURSIVE HexUpper(_, _)
HexUpper(n, width) ==
    IF n < 16 /\ width <= 1 THEN <<HexDigits[n + 1]>>
    ELSE HexUpper(n \div 16, width - 1) \o <<HexDigits[(n % 16) + 1]>>

\* "0x{:08X}".format(n)
FormatAddress(n) == <<"0", "x">> \o HexUpper(n, 8)

\* A fresh program: nothing defined anywhere.
EmptyProgram ==
    [data   |-> [a \in NameAddresses |-> "none"],
     instr  |-> {},
     funcs  |-> [a \in DestAddresses |-> None],
     labels |-> {},
     plate  |-> [a \in DestAddresses |-> None]]

\* The address space's operations on a program p.  createAsciiString cannot
\* place a string on defined data, and createFunction gives no function where
\* one exists already.
getDataAt(p, address) == p.data[address] # "none"

removeDataAt(p, address) == [p EXCEPT !.data[address] = "none"]

createAsciiString(p, address) == [p EXCEPT !.data[address] = "string"]

getInstructionAt(p, address) == address \in p.instr

removeInstructionAt(p, address) == [p EXCEPT !.instr = @ \ {address}]

disassemble(p, address) == [p EXCEPT !.instr = @ \cup {address}]

getFunctionAt(p, address) == p.funcs[address]

createFunction(p, address, name) == [p EXCEPT !.funcs[address] = Some(name)]

setName(p, address, name) == [p EXCEPT !.funcs[address] = Some(name)]

createLabel(p, address, name) == [p EXCEPT !.labels = @ \cup {<<address, name>>}]

setComment(p, address, text) == [p EXCEPT !.plate[address] = Some(text)]

\* The one call of the address space that goes wrong in a run of add_symbol
\* ("none": no call does).  createAsciiString fails with
\* CodeUnitInsertionException ("conflict") or with another error;
\* createFunction returns None or raises.
Faults == {
    "none", "removeDataAt", "createAsciiString_conflict", "createAsciiString_error",
    "removeInstructionAt", "disassemble", "createFunction_none", "createFunction_raise",
    "setName", "setComment", "rename", "createLabel"
}

\* The locals of add_symbol as it runs: status is "run" while statements
\* execute, "returned" after the early return, "caught" once the except clause
\* of the main try block ran, "raised" when an exception left add_symbol; trace
\* lists the calls made so far, function tells whether createFunction gave a
\* function, string_error names the exception createAsciiString raised.
Called(c, call) == [c EXCEPT !.trace = Append(@, call)]

Stopped(c, call, status) == [c EXCEPT !.trace = Append(@, call), !.status = status]

\* Lines 229-247 as they would be if the handler of other errors did not return.
GetSymbolNameNoReturn(c, symbol_name_address, fault) ==
    IF symbol_name_address = 0 THEN c
    ELSE LET found == Called(c, "getDataAt")
             room ==
                 IF ~getDataAt(found.prog, symbol_name_address) THEN found
                 ELSE IF fault = "removeDataAt"
                 THEN Stopped(found, "removeDataAt", "raised")
                 ELSE [Called(found, "removeDataAt")
                          EXCEPT !.prog = removeDataAt(@, symbol_name_address)]
         IN  IF room.status # "run" THEN room
             ELSE IF fault = "createAsciiString_conflict"
                     \/ getDataAt(room.prog, symbol_name_address)
             THEN [Called(room, "createAsciiString")
                      EXCEPT !.string_error = "CodeUnitInsertionException"]
             ELSE IF fault = "createAsciiString_error"
             THEN [Called(room, "createAsciiString")
                      EXCEPT !.string_error = "BaseException"]
             ELSE [Called(room, "createAsciiString")
                      EXCEPT !.prog = createAsciiString(@, symbol_name_address),
                             !.symbol_name_string = strAt[symbol_name_address]]

\* Lines 229-247 as they would be without the removal of the data found.
GetSymbolNameKeepsData(c, symbol_name_address, fault) ==
    IF symbol_name_address = 0 THEN c
    ELSE LET room == Called(c, "getDataAt")
         IN  IF fault = "createAsciiString_conflict"
                \/ getDataAt(room.prog, symbol_name_address)
             THEN [Called(room, "createAsciiString")
                      EXCEPT !.string_error = "CodeUnitInsertionException"]
             ELSE IF fault = "createAsciiString_error"
             THEN [Stopped(room, "createAsciiString", "returned")
                      EXCEPT !.string_error = "BaseException"]
             ELSE [Called(room, "createAsciiString")
                      EXCEPT !.prog = createAsciiString(@, symbol_name_address),
                             !.symbol_name_string = strAt[symbol_name_address]]

\* Lines 229-247: materialize the name string at symbol_name_address.
GetSymbolName(c, symbol_name_address, fault) ==
    IF symbol_name_address = 0 THEN c
    ELSE LET found == Called(c, "getDataAt")
             room ==
                 IF ~getDataAt(found.prog, symbol_name_address) THEN found
                 ELSE IF fault = "removeDataAt"
                 THEN Stopped(found, "removeDataAt", "raised")
                 ELSE [Called(found, "removeDataAt")
                          EXCEPT !.prog = removeDataAt(@, symbol_name_address)]
         IN  IF room.status # "run" THEN room
             ELSE IF fault = "createAsciiString_conflict"
                     \/ getDataAt(room.prog, symbol_name_address)
             THEN [Called(room, "createAsciiString")
                      EXCEPT !.string_error = "CodeUnitInsertionException"]
             ELSE IF fault = "createAsciiString_error"
             THEN [Stopped(room, "createAsciiString", "returned")
                      EXCEPT !.string_error = "BaseException"]
             ELSE [Called(room, "createAsciiString")
                      EXCEPT !.prog = createAsciiString(@, symbol_name_address),
                             !.symbol_name_string = strAt[symbol_name_address]]

\* Lines 250-254: make room at symbol_address.
ClearInstruction(c, symbol_address, fault) ==
    IF c.status # "run" THEN c
    ELSE LET found == Called(c, "getInstructionAt")
         IN  IF ~getInstructionAt(found.prog, symbol_address) THEN found
             ELSE IF fault = "removeInstructionAt"
             THEN Stopped(found, "removeInstructionAt", "raised")
             ELSE [Called(found, "removeInstructionAt")
                      EXCEPT !.prog = removeInstructionAt(@, symbol_address)]

\* Lines 274-291 as they would be with the label created outside the test for
\* a demangled form.
CommentAndRenameThenLabel(c, symbol_address, fault) ==
    LET renamed ==
            IF ~Truthy(c.sym_demangled_name) THEN c
            ELSE IF fault = "setComment" THEN Stopped(c, "setComment", "caught")
            ELSE LET commented ==
                         [Called(c, "setComment")
                             EXCEPT !.prog = setComment(@, symbol_address,
                                                        c.sym_demangled_name[1])]
                     parsed == demangle_function(c.sym_demangled_name[1])
                     named == [commented EXCEPT !.function_name = parsed.function_name]
                 IN  IF parsed.raised THEN [commented EXCEPT !.status = "caught"]
                     ELSE IF ~Truthy(parsed.function_name) THEN named
                     ELSE IF fault = "rename" THEN Stopped(named, "rename", "caught")
                     ELSE [Called(named, "rename")
                              EXCEPT !.prog = setName(@, symbol_address,
                                                      parsed.function_name[1])]
    IN  IF renamed.status # "run" THEN renamed
        ELSE IF fault = "createLabel" THEN Stopped(renamed, "createLabel", "caught")
        ELSE [Called(renamed, "createLabel")
                 EXCEPT !.prog = createLabel(@, symbol_address, c.symbol_name_string)]

\* Lines 274-291: the function exists; comment it, rename it, label it.
CommentAndRename(c, symbol_address, fault) ==
    IF ~Truthy(c.sym_demangled_name) THEN c
    ELSE IF fault = "setComment" THEN Stopped(c, "setComment", "caught")
    ELSE LET commented ==
                 [Called(c, "setComment")
                     EXCEPT !.prog = setComment(@, symbol_address, c.sym_demangled_name[1])]
             parsed == demangle_function(c.sym_demangled_name[1])
             named == [commented EXCEPT !.function_name = parsed.function_name]
         IN  IF parsed.raised THEN [commented EXCEPT !.status = "caught"]
             ELSE LET renamed ==
                          IF ~Truthy(parsed.function_name) THEN named
                          ELSE IF fault = "rename" THEN Stopped(named, "rename", "caught")
                          ELSE [Called(named, "rename")
                                   EXCEPT !.prog = setName(@, symbol_address,
                                                           parsed.function_name[1])]
                  IN  IF renamed.status # "run" THEN renamed
                      ELSE IF fault = "createLabel"
                      THEN Stopped(renamed, "createLabel", "caught")
                      ELSE [Called(renamed, "createLabel")
                               EXCEPT !.prog = createLabel(@, symbol_address,
                                                           c.symbol_name_string)]

\* Lines 262-293: disassemble, create the function, name it.
CreateFunctionBranch(c, symbol_address, fault) ==
    IF fault = "disassemble" THEN Stopped(c, "disassemble", "caught")
    ELSE LET listed == [Called(c, "disassemble")
                           EXCEPT !.prog = disassemble(@, symbol_address)]
         IN  IF fault = "createFunction_raise"
             THEN Stopped(listed, "createFunction", "caught")
             ELSE IF fault = "createFunction_none"
                     \/ getFunctionAt(listed.prog, symbol_address) # None
             THEN \* function is None: the label instead
                  IF fault = "createLabel"
                  THEN Stopped(Called(listed, "createFunction"), "createLabel", "caught")
                  ELSE [Called(Called(listed, "createFunction"), "createLabel")
                           EXCEPT !.prog = createLabel(@, symbol_address,
                                                       c.symbol_name_string)]
             ELSE LET created ==
                          [Called(listed, "createFunction")
                              EXCEPT !.prog = createFunction(@, symbol_address,
                                                             c.symbol_name_string),
                                     !.function = TRUE]
                  IN  IF fault = "setName" THEN Stopped(created, "setName", "caught")
                      ELSE CommentAndRename(
                               [Called(created, "setName")
                                   EXCEPT !.prog = setName(@, symbol_address,
                                                           c.symbol_name_string)],
                               symbol_address, fault)

\* Lines 295-299: a label, and the demangled form as its comment.
CreateLabelBranch(c, symbol_address, fault) ==
    IF fault = "createLabel" THEN Stopped(c, "createLabel", "caught")
    ELSE LET labelled ==
                 [Called(c, "createLabel")
                     EXCEPT !.prog = createLabel(@, symbol_address, c.symbol_name_string)]
         IN  IF ~Truthy(c.sym_demangled_name) THEN labelled
             ELSE IF fault = "setComment" THEN Stopped(labelled, "setComment", "caught")
             ELSE [Called(labelled, "setComment")
                      EXCEPT !.prog = setComment(@, symbol_address,
                                                 c.sym_demangled_name[1])]

\* Lines 257-302: the main try block.
Materialize(c, symbol_address, symbol_type, can, env, fault) ==
    IF c.status # "run" THEN c
    ELSE LET demangled == demangled_symbol(c.symbol_name_string, can, env)
             named == [c EXCEPT !.sym_demangled_name = demangled.value,
                                !.stages = demangled.stages]
         IN  IF c.symbol_name_string # <<>> /\ symbol_type \in need_create_function
             THEN CreateFunctionBranch(named, symbol_address, fault)
             ELSE CreateLabelBranch(named, symbol_address, fault)

\* add_symbol on program p: the program it leaves, how it ended and what its
\* locals held.
add_symbol(p, symbol_name, symbol_name_address, symbol_address, symbol_type, can, env, fault) ==
    LET entry == [prog |-> p, status |-> "run", trace |-> <<>>,
                  symbol_name_string |-> symbol_name, string_error |-> "none",
                  sym_demangled_name |-> None,
                  stages |-> <<>>, function |-> FALSE, function_name |-> None]
    IN  Materialize(
            ClearInstruction(GetSymbolName(entry, symbol_name_address, fault),
                             symbol_address, fault),
            symbol_address, symbol_type, can, env, fault)

(* ------------------------------------------------------------------ *)
(* add_symbol run on a program, then run again                        *)
(* ------------------------------------------------------------------ *)
VARIABLES
    symArgs,  \* the arguments of add_symbol
    symPc,    \* "call", then "once" and "twice" as the runs end
    symRuns   \* per run, the program before it and what add_symbol left

symVars == <<symArgs, symPc, symRuns>>

SymbolTypes == {4, 5, 7}

\* The programs add_symbol is started on: data or not at the name address, an
\* instruction or not and a function or not at the symbol's address.
StartPrograms(name_address, address) ==
    {[EmptyProgram EXCEPT
         !.data = IF name_address = 0 THEN @ ELSE [@ EXCEPT ![name_address] = d],
         !.instr = i,
         !.funcs[address] = f] :
     d \in {"none", "string", "struct"},
     i \in {{}, {address}},
     f \in {None, Some(<<"F", "U", "N", "_", "1">>)}}

SymIdle ==
    /\ symArgs = [symbol_name |-> <<>>, symbol_name_address |-> 0,
                  symbol_address |-> 0, symbol_type |-> 0]
    /\ symPc = "idle"
    /\ symRuns = <<>>

ProgIdle ==
    /\ prog = EmptyProgram
    /\ strAt = [a \in NameAddresses |-> <<>>]

\* The symbol is at 4096 and its name, when it has one, at 256; the default
\* name is the one fix_symbol_by_chains passes.  A demangler knows the name in
\* memory; when the symbol has no name address it knows the default name.
SymInit ==
    /\ \E na \in {0, 256}, ty \in SymbolTypes :
        symArgs = [symbol_name |-> FormatAddress(4096), symbol_name_address |-> na,
                   symbol_address |-> 4096, symbol_type |-> ty]
    /\ prog \in StartPrograms(symArgs.symbol_name_address, symArgs.symbol_address)
    /\ \E s \in {NameMangled, NamePlain, <<>>} :
        /\ strAt = [a \in NameAddresses |-> IF a = 256 THEN s ELSE <<>>]
        /\ symArgs.symbol_name_address = 0 => s = <<>>
    /\ can_demangle \in BOOLEAN
    /\ LET known == IF symArgs.symbol_name_address = 0 THEN symArgs.symbol_name
                    ELSE strAt[256]
       IN  \E d \in DemanglersFor({known}) :
               /\ ~can_demangle => \A q \in DOMAIN d : d[q] = DemangleNone
               /\ demangler = [q \in QueriesOf(symArgs.symbol_name) \cup QueriesOf(known) |->
                                  IF q \in DOMAIN d THEN d[q] ELSE DemangleNone]
    /\ symPc = "call"
    /\ symRuns = <<>>

RunAddSymbol(fault) ==
    \E r \in {add_symbol(prog, symArgs.symbol_name, symArgs.symbol_name_address,
                         symArgs.symbol_address, symArgs.symbol_type,
                         can_demangle, demangler, fault)} :
        /\ prog' = r.prog
        /\ symRuns' = Append(symRuns, [before |-> prog, fault |-> fault, out |-> r])

\* The first run: any one call of the address space may go wrong.
AddSymbolCall ==
    /\ symPc = "call"
    /\ \E fault \in Faults : RunAddSymbol(fault)
    /\ symPc' = "once"
    /\ UNCHANGED <<symArgs, strAt, envVars>>

\* The same call again on the program the first left, with none going wrong.
AddSymbolAgain ==
    /\ symPc = "once"
    /\ RunAddSymbol("none")
    /\ symPc' = "twice"
    /\ UNCHANGED <<symArgs, strAt, envVars>>

(* ------------------------------------------------------------------ *)
(* fix_symbol_by_chains                                               *)
(* ------------------------------------------------------------------ *)
VARIABLES
    vx_version,  \* the argument: 5, 6 or 7
    head,        \* the argument: the record the walk starts at
    tail,        \* the argument: the record the walk stops at
    memory,      \* the bytes of the symbol table, by address
    ea,          \* the loop's position
    walkPc,      \* "call", "loop", "returned", or "raised" when an exception left the walk
    symTyped,    \* per address, how often createData(dt) ran there
    walkLog      \* per pass of the loop, what was read and what add_symbol did

walkVars == <<vx_version, head, tail, memory, ea, walkPc, symTyped, walkLog>>

\* Where the symbol table starts.
TableBase == 8192

\* The walk is not followed beyond this many passes of the loop.
MaxSteps == 3

\* Lines 365-372 as they would be without the cases for versions 6 and 7.
symbol_interval_v5(version) == 16

\* Lines 365-372: the distance the walker takes between a record's fields.
symbol_interval(version) ==
    IF version = 6 THEN 20 ELSE IF version = 7 THEN 40 ELSE 16

\* The size of a symbol record in a table of each version.
RecordSize(version) ==
    IF version = 6 THEN 20 ELSE IF version = 7 THEN 40 ELSE 16

RecordAddress(k, version) == TableBase + (k - 1) * RecordSize(version)

\* The four bytes of n, most significant first.
Be32(n) == <<(n \div 16777216) % 256, (n \div 65536) % 256, (n \div 256) % 256, n % 256>>

\* getInt(address): the 32-bit value stored at address.
getInt(mem, address) ==
    mem[address] * 16777216 + mem[address + 1] * 65536 + mem[address + 2] * 256
    + mem[address + 3]

\* getByte(address): the signed byte stored at address.
getByte(mem, address) ==
    IF mem[address] > 127 THEN mem[address] - 256 ELSE mem[address]

\* The bytes of one record: the previous record's address, the name pointer,
\* the symbol's address, then the rest of the record with the type byte two
\* before its end.
RecordBytes(rec, version) ==
    Be32(rec.prev) \o Be32(rec.name) \o Be32(rec.dest)
    \o [o \in 1..(RecordSize(version) - 12) |->
            IF o = RecordSize(version) - 13 THEN rec.type ELSE 255]

TableMemory(records, version) ==
    [a \in TableBase..(TableBase + Len(records) * RecordSize(version) - 1) |->
        RecordBytes(records[((a - TableBase) \div RecordSize(version)) + 1],
                    version)[((a - TableBase) % RecordSize(version)) + 1]]

\* What a record can be: a function with a C++ name, a function with a plain
\* name, an object, a function without a name pointer.
SymbolKinds == {
    [name |-> 256, type |-> 5],
    [name |-> 272, type |-> 4],
    [name |-> 272, type |-> 7],
    [name |-> 0, type |-> 4]
}

\* The tables of n records: each links to no record, to itself or to the record
\* after it in the table (the last one to the first).
Tables(n, version) ==
    {[k \in 1..n |-> [prev |-> IF links[k] = 0 THEN 0
                               ELSE RecordAddress(links[k], version),
                      name |-> kinds[k].name,
                      dest |-> 4096 + 16 * (k - 1), type |-> kinds[k].type]] :
     links \in {l \in [1..n -> 0..n] : \A k \in 1..n : l[k] \in {0, k, (k % n) + 1}},
     kinds \in [1..n -> SymbolKinds]}

\* The demanglers a walk runs with: for the C++ name the demangler gives a
\* function's signature, gives a type's name, or knows nothing.
WalkDemanglers ==
    {[q \in UNION {QueriesOf(s) : s \in {NameMangled, NamePlain}
                                        \cup {FormatAddress(d) : d \in DestAddresses}} |->
         IF q = <<NameMangled, TRUE>> THEN known ELSE DemangleNone] :
     known \in {DemangledObject(Some(SigFoo)), DemangledObject(Some(SigDword)),
                DemangleNone}}

WalkIdle ==
    /\ vx_version = 5
    /\ head = 0
    /\ tail = 0
    /\ memory = <<>>
    /\ ea = 0
    /\ walkPc = "idle"
    /\ symTyped = <<>>
    /\ walkLog = <<>>

\* A program the host's analysis has been over: strings where the names are,
\* instructions where the symbols are.
AnalysedProgram ==
    [EmptyProgram EXCEPT !.data = [a \in NameAddresses |-> "string"],
                         !.instr = DestAddresses]

\* A table in memory, a fresh or an analysed program around it; the walk starts at the first
\* record and is told to stop at any one of them.
WalkInit ==
    /\ vx_version \in {5, 6, 7}
    /\ \E n \in 1..MaxRecords :
        /\ \E records \in Tables(n, vx_version) :
               memory = TableMemory(records, vx_version)
        /\ tail \in {RecordAddress(j, vx_version) : j \in 1..n}
    /\ head = TableBase
    /\ ea = 0
    /\ walkPc = "call"
    /\ symTyped = [a \in DOMAIN memory |-> 0]
    /\ walkLog = <<>>
    /\ prog \in {EmptyProgram, AnalysedProgram}
    /\ strAt = [a \in NameAddresses |-> IF a = 256 THEN NameMangled ELSE NamePlain]
    /\ can_demangle = TRUE
    /\ demangler \in WalkDemanglers

\* Lines 365-373: up to the loop.
FixSymbolByChainsEnter ==
    /\ walkPc = "call"
    /\ ea' = head
    /\ walkPc' = "loop"
    /\ UNCHANGED <<vx_version, head, tail, memory, symTyped, walkLog, progVars, envVars>>

\* Whether a call has gone wrong in the walk so far.
Faulted == \E i \in 1..Len(walkLog) : walkLog[i].fault # "none"

\* Lines 374-387: one pass of the loop.  At most one call of the address space
\* goes wrong in a walk, and it is a call the pass makes.
FixSymbolByChainsStep ==
    /\ walkPc = "loop"
    /\ Len(walkLog) < MaxSteps
    /\ \E fault \in IF Faulted THEN {"none"} ELSE Faults :
        LET prev_symbol_addr == getInt(memory, ea)
            symbol_name_address == getInt(memory, ea + 4)
            symbol_dest_address == getInt(memory, ea + 8)
            symbol_type == getByte(memory, ea + symbol_interval(vx_version) - 2)
            symbol_name == FormatAddress(symbol_dest_address)
        IN  \E r \in {add_symbol(prog, symbol_name, symbol_name_address,
                                 symbol_dest_address, symbol_type, can_demangle,
                                 demangler, fault)} :
                /\ fault # "none" =>
                       r # add_symbol(prog, symbol_name, symbol_name_address,
                                      symbol_dest_address, symbol_type, can_demangle,
                                      demangler, "none")
                /\ symTyped' = create_struct(symTyped, ea, DOMAIN memory)
                /\ prog' = r.prog
                /\ walkLog' = Append(walkLog,
                       [ea |-> ea, symbol_name |-> symbol_name,
                        symbol_name_address |-> symbol_name_address,
                        symbol_dest_address |-> symbol_dest_address,
                        symbol_type |-> symbol_type, fault |-> fault,
                        status |-> r.status, trace |-> r.trace,
                        symbol_name_string |-> r.symbol_name_string,
                        sym_demangled_name |-> r.sym_demangled_name,
                        function |-> r.function])
                /\ IF r.status = "raised"
                   THEN walkPc' = "raised" /\ ea' = ea
                   ELSE IF getInt(memory, ea) = 0 \/ ea = tail
                   THEN walkPc' = "returned" /\ ea' = ea
                   ELSE walkPc' = "loop" /\ ea' = prev_symbol_addr
    /\ UNCHANGED <<vx_version, head, tail, memory, strAt, envVars>>

(* ------------------------------------------------------------------ *)
(* Specifications                                                     *)
(* ------------------------------------------------------------------ *)
vars == <<parseVars, vxVars, chainVars, envVars, demVars, progVars, symVars, walkVars>>

ParseNext ==
    DemangleCall
    /\ UNCHANGED <<vxVars, chainVars, envVars, demVars, progVars, symVars, walkVars>>

ParseSpecInit ==
    /\ ParseInit
    /\ VxIdle
    /\ ChainIdle
    /\ EnvIdle
    /\ DemIdle
    /\ ProgIdle
    /\ SymIdle
    /\ WalkIdle

\* One call of demangle_function on a signature.
SpecParse ==
    ParseSpecInit /\ [][ParseNext]_vars

VxNext ==
    IsVxSymbolFileCall
    /\ UNCHANGED <<parseVars, chainVars, envVars, demVars, progVars, symVars, walkVars>>

VxSpecInit ==
    /\ VxInit
    /\ ParseIdle
    /\ ChainIdle
    /\ EnvIdle
    /\ DemIdle
    /\ ProgIdle
    /\ SymIdle
    /\ WalkIdle

\* One call of is_vx_symbol_file on a buffer.
SpecValidate ==
    VxSpecInit /\ [][VxNext]_vars

ChainNext ==
    \/ FixClBuffChainEnter
       /\ UNCHANGED <<parseVars, vxVars, envVars, demVars, progVars, symVars, walkVars>>
    \/ FixClBuffChainStep
       /\ UNCHANGED <<parseVars, vxVars, envVars, demVars, progVars, symVars, walkVars>>

ChainSpecInit ==
    /\ ChainInit
    /\ ParseIdle
    /\ VxIdle
    /\ EnvIdle
    /\ DemIdle
    /\ ProgIdle
    /\ SymIdle
    /\ WalkIdle

\* One call of fix_cl_buff_chain; the interpreter keeps running the loop.
SpecChain ==
    ChainSpecInit /\ [][ChainNext]_vars /\ WF_vars(ChainNext)

DemNext ==
    DemangledSymbolCall
    /\ UNCHANGED <<parseVars, vxVars, chainVars, progVars, symVars, walkVars>>

DemSpecInit ==
    /\ DemInit
    /\ ParseIdle
    /\ VxIdle
    /\ ChainIdle
    /\ ProgIdle
    /\ SymIdle
    /\ WalkIdle

\* One call of demangled_symbol on a string.
SpecDemangle ==
    DemSpecInit /\ [][DemNext]_vars

SymNext ==
    \/ AddSymbolCall /\ UNCHANGED <<parseVars, vxVars, chainVars, demVars, walkVars>>
    \/ AddSymbolAgain /\ UNCHANGED <<parseVars, vxVars, chainVars, demVars, walkVars>>

SymSpecInit ==
    /\ SymInit
    /\ ParseIdle
    /\ VxIdle
    /\ ChainIdle
    /\ DemIdle
    /\ WalkIdle

\* add_symbol on a program, and once more on what it left.
SpecSym ==
    SymSpecInit /\ [][SymNext]_vars

Next ==
    \/ FixSymbolByChainsEnter
       /\ UNCHANGED <<parseVars, vxVars, chainVars, demVars, symVars>>
    \/ FixSymbolByChainsStep
       /\ UNCHANGED <<parseVars, vxVars, chainVars, demVars, symVars>>

Init ==
    /\ WalkInit
    /\ ParseIdle
    /\ VxIdle
    /\ ChainIdle
    /\ DemIdle
    /\ SymIdle

\* One call of fix_symbol_by_chains on a table in memory.
Spec ==
    Init /\ [][Next]_vars

(* ------------------------------------------------------------------ *)
(* Claims about the parser                                            *)
(* ------------------------------------------------------------------ *)
NoSpace(t) == \A k \in 1..Len(t) : t[k] # " "

\* The parenthesis depth after the first k characters of p, read left to right.
RECURSIVE DepthAfter(_, _)
DepthAfter(p, k) ==
    IF k = 0 THEN 0
    ELSE DepthAfter(p, k - 1)
         + (IF p[k] = "(" THEN 1 ELSE IF p[k] = ")" THEN -1 ELSE 0)

\* p is one parenthesized group: its first "(" is closed by its last ")".
IsParenGroup(p) ==
    /\ Len(p) >= 2
    /\ p[1] = "("
    /\ p[Len(p)] = ")"
    /\ DepthAfter(p, Len(p)) = 0
    /\ \A k \in 1..(Len(p) - 1) : DepthAfter(p, k) > 0

PartR(s, i) == SubSeq(s, 1, i - 1)

PartN(s, i, j) == SubSeq(s, i + 1, j)

PartP(s, j) == SubSeq(s, j + 1, Len(s))

\* s = R + " " + N + P with the space at position i and N ending at position j,
\* N a non-empty token without spaces that passes check_is_func_name, P empty
\* (N then not ending in ")") or one parenthesized group.
IsRNP(s, i, j) ==
    /\ s[i] = " "
    /\ j > i
    /\ \/ j = Len(s) /\ s[j] # ")"
       \/ j < Len(s) /\ s[j + 1] = "(" /\ IsParenGroup(PartP(s, j))
    /\ NoSpace(PartN(s, i, j))
    /\ check_is_func_name(PartN(s, i, j))

ParsedAs(s, i, j) ==
    /\ parseOut.function_return = Some(PartR(s, i))
    /\ parseOut.function_name = Some(PartN(s, i, j))
    /\ parseOut.function_parameters = PartP(s, j)

\* C1 as stated: every signature R + " " + N + P of that form parses to exactly
\* (R, N, P).
C1_EveryRNPParsesExactly ==
    parsePc = "returned" =>
        \A i \in 1..Len(demangle_string) : \A j \in 1..Len(demangle_string) :
            IsRNP(demangle_string, i, j) => ParsedAs(demangle_string, i, j)

\* C1, amended: a signature R + " " + N + P of that form, with R non-empty and N
\* not the bare pointer marker "*", parses to exactly (R, N, P); a "*" ending R
\* stays in the return type.
C1_NonEmptyReturnAndNameNotStar ==
    parsePc = "returned" =>
        \A i \in 2..Len(demangle_string) : \A j \in 1..Len(demangle_string) :
            (IsRNP(demangle_string, i, j) /\ PartN(demangle_string, i, j) # <<"*">>)
                => ParsedAs(demangle_string, i, j)

\* A pointer-returning signature with parameters has been parsed.
C1_Witness ==
    /\ parsePc = "returned"
    /\ \E i \in 2..Len(demangle_string) : \E j \in 1..Len(demangle_string) :
        /\ IsRNP(demangle_string, i, j)
        /\ PartN(demangle_string, i, j) # <<"*">>
        /\ demangle_string[i - 1] = "*"
        /\ PartP(demangle_string, j) # <<>>
        /\ ParsedAs(demangle_string, i, j)

\* C2 as stated: a returned name is non-empty, at most 512 characters long,
\* made of the identifier character set and not a reserved built-in type name;
\* a signature that is only a reserved type name gives no name.
C2_ReturnedNameIsIdentifier ==
    parsePc = "returned" =>
        /\ parseOut.function_name # None =>
            LET name == parseOut.function_name[1]
            IN  /\ Len(name) > 0
                /\ Len(name) <= MaxFuncNameLen
                /\ \A k \in 1..Len(name) : name[k] \in function_name_chaset
                /\ Lower(name) \notin ghidra_builtin_types
        /\ Lower(demangle_string) \in ghidra_builtin_types =>
            parseOut.function_name = None

(* ------------------------------------------------------------------ *)
(* Claims about fix_cl_buff_chain                                     *)
(* ------------------------------------------------------------------ *)
\* The k-th buffer of the chain: k forward links from the starting buffer.
RECURSIVE Hop(_)
Hop(k) == IF k = 0 THEN cl_buff_addr ELSE clLink[Hop(k - 1)]

ChainLengths == 0..(MaxAddr + 1)

\* The chain is a simple cycle of n buffers back to the starting buffer.
IsSimpleCycle(n) ==
    /\ n >= 1
    /\ Hop(n) = cl_buff_addr
    /\ \A k \in 1..(n - 1) : Hop(k) # cl_buff_addr
    /\ \A k \in 0..(n - 1) : Hop(k) \in clMapped

\* The chain leaves the address space at its k-th link.
LeavesAt(k) ==
    /\ \A j \in 0..(k - 1) : Hop(j) \in clMapped
    /\ Hop(k) \notin clMapped

\* Exactly the first n buffers of the chain are typed, each once.
TypedFirst(n) ==
    \A a \in ClAddresses :
        clTyped[a] = IF \E k \in 0..(n - 1) : Hop(k) = a THEN 1 ELSE 0

\* A version 5 call on a chain that starts at a buffer (not at the null pointer).
WalksChain == clVersion = 5 /\ cl_buff_addr # 0

C9_Safety ==
    /\ \A n \in ChainLengths : (WalksChain /\ IsSimpleCycle(n)) =>
        /\ \A a \in ClAddresses : clTyped[a] <= 1
        /\ clPc = "returned" => TypedFirst(n)
    /\ \A k \in ChainLengths : (WalksChain /\ LeavesAt(k)) =>
        /\ \A a \in ClAddresses : clTyped[a] <= 1
        /\ clPc = "returned" => (next_cl_buff_addr = Hop(k) /\ TypedFirst(k))

C9_Terminating ==
    WalksChain /\ \E n \in ChainLengths : IsSimpleCycle(n) \/ LeavesAt(n)

\* C9: fix_cl_buff_chain (version 5), started at a buffer whose chain is a simple
\* cycle back to it (a self-linked single buffer included), returns having typed
\* each buffer of the cycle exactly once; on a chain that leaves the address
\* space it returns at the first address outside, which it does not type.
C9_CycleAndExitTerminate ==
    /\ [](C9_Safety)
    /\ [](C9_Terminating => <>(clPc = "returned"))

\* A walk around a cycle of two or more buffers has returned.
C9_Witness ==
    /\ clPc = "returned"
    /\ WalksChain
    /\ \E n \in ChainLengths : n >= 2 /\ IsSimpleCycle(n) /\ TypedFirst(n)

\* A walk of a self-linked buffer, and one that left the address space after
\* typing a buffer, have returned.
C9_WitnessSelfLoop ==
    clPc = "returned" /\ WalksChain /\ IsSimpleCycle(1) /\ TypedFirst(1)

C9_WitnessLeaves ==
    /\ clPc = "returned"
    /\ WalksChain
    /\ \E k \in ChainLengths : k >= 2 /\ LeavesAt(k) /\ TypedFirst(k)

(* ------------------------------------------------------------------ *)
(* Claims about is_vx_symbol_file                                     *)
(* ------------------------------------------------------------------ *)
\* The byte string `word` occurs in file_data.
Occurs(word) ==
    \E i \in 1..Len(file_data) :
        /\ i + Len(word) - 1 <= Len(file_data)
        /\ SubSeq(file_data, i, i + Len(word) - 1) = word

AllFingerprintsOccur ==
    /\ Occurs(<<98, 122, 101, 114, 111>>)            \* bzero
    /\ Occurs(<<117, 115, 114, 73, 110, 105, 116>>)  \* usrInit
    /\ Occurs(<<98, 102, 105, 108, 108>>)            \* bfill

\* The first four bytes as an unsigned 32-bit integer.
LengthPrefix ==
    IF is_big_endian
    THEN file_data[1] * 16777216 + file_data[2] * 65536 + file_data[3] * 256 + file_data[4]
    ELSE file_data[4] * 16777216 + file_data[3] * 65536 + file_data[2] * 256 + file_data[1]

\* C10: is_vx_symbol_file returns, and returns true exactly when every
\* fingerprint occurs in the buffer and its first four bytes, read in the given
\* endianness, are its length; without a fingerprint it returns false whatever
\* the prefix; the program is left as it was.
C10_TrueIffFingerprintsAndLength ==
    vxPc # "call" =>
        /\ vxPc = "returned"
        /\ vxOut <=> (AllFingerprintsOccur /\ LengthPrefix = Len(file_data))
        /\ ~AllFingerprintsOccur => ~vxOut
        /\ prog = EmptyProgram

\* A little-endian buffer was accepted.
C10_Witness ==
    vxPc = "returned" /\ vxOut /\ ~is_big_endian /\ file_data[1] = Len(file_data)

(* ------------------------------------------------------------------ *)
(* Claims about demangled_symbol                                      *)
(* ------------------------------------------------------------------ *)
\* What the demangler does at each stage on symbol_string.
StageOutcome(stage) ==
    IF stage = 1 THEN demangler[<<symbol_string, TRUE>>]
    ELSE IF stage = 2 THEN demangler[<<symbol_string, FALSE>>]
    ELSE demangler[<<SubSeq(symbol_string, 2, Len(symbol_string)), FALSE>>]

Yields(stage) == StageOutcome(stage).kind = "object"

StageRaises(stage) ==
    StageOutcome(stage).kind \in {"DemangledException", "java.lang.Exception"}

\* The stages run, in order, when each of `tried` is run unless an earlier one
\* yielded.
StagesRun(tried) ==
    LET run(i) == i \in tried /\ \A j \in 1..(i - 1) : ~(j \in tried /\ Yields(j))
    IN  (IF run(1) THEN <<1>> ELSE <<>>) \o (IF run(2) THEN <<2>> ELSE <<>>)
        \o (IF run(3) THEN <<3>> ELSE <<>>)

\* The signature of the first of `tried` that yields, None when none does.
FirstYield(tried) ==
    LET hits == {i \in tried : Yields(i)}
    IN  IF hits = {} THEN None
        ELSE StageOutcome(CHOOSE i \in hits : \A j \in hits : i <= j).signature

\* C6 as stated: with a demangler loaded, the three stages are tried in order up
\* to the first that yields a demangled form, a stage that raises counting as
\* yielding nothing for that stage only, and the result is that stage's.
C6_EveryLaterStageTried ==
    (demPc = "returned" /\ can_demangle) =>
        /\ demOut.stages = StagesRun({1, 2, 3})
        /\ demOut.value = FirstYield({1, 2, 3})

\* C6, amended: stage 2 is tried only when stage 1 returned without a demangled
\* form; when stage 1 raises, stage 2 is skipped and stage 3 is tried next.  The
\* result is that of the first stage tried that yields, and no demangling
\* failure leaves demangled_symbol.
C6_StageTwoSkippedWhenStageOneRaises ==
    (demPc = "returned" /\ can_demangle) =>
        LET tried == IF StageRaises(1) THEN {1, 3} ELSE {1, 2, 3}
        IN  /\ demOut.stages = StagesRun(tried)
            /\ demOut.value = FirstYield(tried)

\* Stage 1 raised, stage 2 would have yielded, and stage 3's form was returned.
C6_Witness ==
    /\ demPc = "returned"
    /\ can_demangle
    /\ StageRaises(1)
    /\ Yields(2)
    /\ Yields(3)
    /\ demOut.stages = <<1, 3>>
    /\ demOut.value = StageOutcome(3).signature

(* ------------------------------------------------------------------ *)
(* Claims about add_symbol                                            *)
(* ------------------------------------------------------------------ *)
RunIds == 1..Len(symRuns)

IsFunctionType == symArgs.symbol_type \in {4, 5}

Made(run, call) == \E i \in 1..Len(run.out.trace) : run.out.trace[i] = call

\* The functions, labels and plate comments at the symbol's address.
AtSymbol(p) ==
    <<p.funcs[symArgs.symbol_address],
      {l \in p.labels : l[1] = symArgs.symbol_address},
      p.plate[symArgs.symbol_address]>>

\* C5 as stated: when the string at the name address cannot be created, the
\* data conflict included, add_symbol returns normally and creates no function,
\* label or plate comment at the symbol's address.
C5_AnyStringFailureAborts ==
    \A r \in RunIds :
        symRuns[r].out.string_error # "none" =>
            /\ symRuns[r].out.status = "returned"
            /\ AtSymbol(symRuns[r].out.prog) = AtSymbol(symRuns[r].before)

\* C5, amended: add_symbol aborts the symbol (returns normally, nothing created
\* at its address) when createAsciiString fails with anything but
\* CodeUnitInsertionException; on that data-conflict failure it goes on and
\* materializes the symbol under the default name it was given.
C5_OnlyOtherErrorsAbort ==
    \A r \in RunIds :
        LET out == symRuns[r].out
        IN  /\ out.string_error = "BaseException" =>
                /\ out.status = "returned"
                /\ AtSymbol(out.prog) = AtSymbol(symRuns[r].before)
                /\ ~Made(symRuns[r], "getInstructionAt")
            /\ out.string_error = "CodeUnitInsertionException" =>
                /\ out.status = "run"
                /\ out.symbol_name_string = symArgs.symbol_name
                /\ \/ <<symArgs.symbol_address, symArgs.symbol_name>> \in out.prog.labels
                   \/ out.function

\* createAsciiString failed with another error on a program holding data at the
\* name address, and the run returned.
C5_Witness ==
    \E r \in RunIds :
        /\ symRuns[r].out.string_error = "BaseException"
        /\ symRuns[r].out.status = "returned"
        /\ symRuns[r].before.data[symArgs.symbol_name_address] # "none"
        /\ IsFunctionType

\* createFunction returned no function (it did not raise).
FunctionRefused(run) ==
    Made(run, "createFunction") /\ ~run.out.function /\ run.out.status = "run"

LabelledOriginal(run) ==
    /\ Made(run, "createLabel")
    /\ <<symArgs.symbol_address, run.out.symbol_name_string>> \in run.out.prog.labels

FallsBackToLabel(run) ==
    FunctionRefused(run) =>
        /\ LabelledOriginal(run)
        /\ run.out.prog.funcs = run.before.funcs
        /\ ~Made(run, "setName")
        /\ ~Made(run, "rename")

\* C7 as stated, for runs in which no call fails after the function is created:
\* the function once created, the original name is also made a label there,
\* with or without a demangled form; when createFunction gives no function the
\* label is created instead and no function is renamed.
C7_LabelWheneverFunctionCreated ==
    \A r \in RunIds :
        IsFunctionType =>
            /\ (symRuns[r].out.function /\ symRuns[r].out.status = "run") =>
                LabelledOriginal(symRuns[r])
            /\ FallsBackToLabel(symRuns[r])

\* C7, amended: the function once created (and no later call failing), the
\* original name is made a label there exactly when a demangled form exists;
\* without one the function just bears the original name.  When createFunction
\* gives no function the label is created instead and no function is renamed.
C7_LabelOnlyWithDemangledForm ==
    \A r \in RunIds :
        IsFunctionType =>
            /\ (symRuns[r].out.function /\ symRuns[r].out.status = "run") =>
                IF Truthy(symRuns[r].out.sym_demangled_name)
                THEN LabelledOriginal(symRuns[r])
                ELSE /\ ~Made(symRuns[r], "createLabel")
                     /\ symRuns[r].out.prog.labels = symRuns[r].before.labels
                     /\ symRuns[r].out.prog.funcs[symArgs.symbol_address]
                            = Some(symRuns[r].out.symbol_name_string)
            /\ FallsBackToLabel(symRuns[r])

\* A function was created and renamed to its demangled name, and the mangled
\* name is a label beside it.
C7_Witness ==
    \E r \in RunIds :
        /\ IsFunctionType
        /\ symRuns[r].out.function
        /\ symRuns[r].out.status = "run"
        /\ symRuns[r].out.symbol_name_string = NameMangled
        /\ symRuns[r].out.prog.funcs[symArgs.symbol_address] = Some(<<"F", "o", "o", ":", ":", "f">>)
        /\ LabelledOriginal(symRuns[r])

\* The fallback happened.
C7_WitnessFallback ==
    \E r \in RunIds : IsFunctionType /\ FunctionRefused(symRuns[r]) /\ LabelledOriginal(symRuns[r])

Position(run, call) == CHOOSE i \in 1..Len(run.out.trace) : run.out.trace[i] = call

\* The run found string data at the name address.
OverStringData(run) ==
    /\ symArgs.symbol_name_address # 0
    /\ run.before.data[symArgs.symbol_name_address] = "string"

\* No call of the address space was made to fail in the run.
Smooth(run) == run.fault = "none"

\* The annotations: functions and their names, labels, plate comments, typed data.
Annotations(p) == <<p.funcs, p.labels, p.plate, p.data>>

RemovesThenCreates(run) ==
    /\ Made(run, "removeDataAt")
    /\ Made(run, "createAsciiString")
    /\ Position(run, "removeDataAt") < Position(run, "createAsciiString")
    /\ run.out.status = "run"
    /\ run.out.string_error = "none"
    /\ run.out.prog.data[symArgs.symbol_name_address] = "string"
    /\ run.out.symbol_name_string = strAt[symArgs.symbol_name_address]

\* C8 as stated: materializing over string data at the name address removes the
\* data, creates the string and succeeds, and a second run with the same
\* arguments leaves the annotations as the first left them.
C8_SecondRunChangesNothing ==
    (Len(symRuns) >= 1 /\ OverStringData(symRuns[1]) /\ Smooth(symRuns[1])) =>
        /\ RemovesThenCreates(symRuns[1])
        /\ Len(symRuns) = 2 =>
            Annotations(symRuns[2].out.prog) = Annotations(symRuns[1].out.prog)

\* C8, amended: the same, except that when the first run created the function
\* and found no demangled form for its name, the second run adds the original
\* name as a label at the symbol's address and changes nothing else.
C8_SecondRunAddsLabelToBareFunction ==
    (Len(symRuns) >= 1 /\ OverStringData(symRuns[1]) /\ Smooth(symRuns[1])) =>
        /\ RemovesThenCreates(symRuns[1])
        /\ Len(symRuns) = 2 =>
            LET first == symRuns[1].out
                second == symRuns[2].out
            IN  IF first.function /\ ~Truthy(first.sym_demangled_name)
                THEN Annotations(second.prog) =
                         Annotations(createLabel(first.prog, symArgs.symbol_address,
                                                 first.symbol_name_string))
                ELSE Annotations(second.prog) = Annotations(first.prog)

\* Both runs went over string data, the first creating and renaming a function.
C8_Witness ==
    /\ Len(symRuns) = 2
    /\ OverStringData(symRuns[1])
    /\ Smooth(symRuns[1])
    /\ symRuns[1].out.function
    /\ Truthy(symRuns[1].out.function_name)
    /\ RemovesThenCreates(symRuns[2])
    /\ Annotations(symRuns[2].out.prog) = Annotations(symRuns[1].out.prog)

(* ------------------------------------------------------------------ *)
(* Claims about fix_symbol_by_chains                                  *)
(* ------------------------------------------------------------------ *)
Passes == 1..Len(walkLog)

PassMade(e, call) == \E i \in 1..Len(e.trace) : e.trace[i] = call

\* The name a record goes by: the string at its name pointer, or the default
\* name made of its destination when it has no name pointer.
NameOfRecord(e) ==
    IF e.symbol_name_address = 0 THEN FormatAddress(e.symbol_dest_address)
    ELSE strAt[e.symbol_name_address]

\* The type tag the table holds for the record a pass was at.
TypeTag(e) == memory[e.ea + RecordSize(vx_version) - 2]

C4_NoFailureLeavesAddSymbol ==
    \A i \in Passes :
        walkLog[i].fault # "none" =>
            /\ walkLog[i].status # "raised"
            /\ walkPc # "raised"
            /\ (i = Len(walkLog) /\ walkPc = "loop") => ea = getInt(memory, walkLog[i].ea)

\* The part of C4 that the code keeps: a failure inside the main try block of
\* add_symbol, or of createAsciiString, ends the record and not the walk.
C4_CaughtFailuresKeepWalking ==
    \A i \in Passes :
        walkLog[i].fault \notin {"none", "removeDataAt", "removeInstructionAt"} =>
            /\ walkLog[i].status # "raised"
            /\ walkPc # "raised"
            /\ (i = Len(walkLog) /\ walkPc = "loop") => ea = getInt(memory, walkLog[i].ea)

\* The address of the k-th record of the chain from head along the
\* previous-record links.
RECURSIVE ChainRecord(_)
ChainRecord(k) == IF k = 1 THEN head ELSE getInt(memory, ChainRecord(k - 1))

\* The record at address a ends the chain: its link is zero or it is at tail.
StopsChain(a) == getInt(memory, a) = 0 \/ a = tail

\* The chain reaches its first stopping record at its n-th record.
StopsAt(n) ==
    /\ \A k \in 1..(n - 1) : ~StopsChain(ChainRecord(k))
    /\ StopsChain(ChainRecord(n))

\* The k-th pass was at the k-th record of the chain and handed add_symbol the
\* default name of the record's destination, its name pointer, its destination
\* and the type byte two before the end of the version's record.
PassedRecord(k) ==
    LET a == ChainRecord(k)
        e == walkLog[k]
    IN  /\ e.ea = a
        /\ e.symbol_name_address = getInt(memory, a + 4)
        /\ e.symbol_dest_address = getInt(memory, a + 8)
        /\ e.symbol_name = FormatAddress(getInt(memory, a + 8))
        /\ e.symbol_type = memory[a + RecordSize(vx_version) - 2]

\* The records typed, each once: the first n of the chain.
TypedChain(n) ==
    \A a \in DOMAIN memory :
        symTyped[a] = IF \E k \in 1..n : ChainRecord(k) = a THEN 1 ELSE 0

WalkEnded == walkPc \notin {"call", "loop"}

\* C11 as stated: on a table whose chain from head reaches a record with a zero
\* link or at tail, the walk passes the records of the chain in order, each
\* once, with the default name, name pointer, destination and type byte of the
\* record, and ends by returning after the stopping record, having typed and
\* handed to add_symbol exactly the records up to it.
C11_EveryChainRecordOnceInOrder ==
    \A n \in 1..MaxRecords :
        (walkPc # "call" /\ StopsAt(n)) =>
            /\ Len(walkLog) <= n
            /\ \A k \in 1..Len(walkLog) : PassedRecord(k)
            /\ TypedChain(Len(walkLog))
            /\ walkPc = "loop" => (Len(walkLog) < n /\ ea = ChainRecord(Len(walkLog) + 1))
            /\ WalkEnded => (walkPc = "returned" /\ Len(walkLog) = n)

\* C11 where no exception leaves add_symbol: the same, and this much the loop
\* of fix_symbol_by_chains keeps.
C11_OnceInOrderUnlessAddSymbolRaises ==
    \A n \in 1..MaxRecords :
        (walkPc # "call" /\ StopsAt(n)) =>
            /\ Len(walkLog) <= n
            /\ \A k \in 1..Len(walkLog) : PassedRecord(k)
            /\ TypedChain(Len(walkLog))
            /\ walkPc = "loop" => (Len(walkLog) < n /\ ea = ChainRecord(Len(walkLog) + 1))
            /\ walkPc = "returned" => Len(walkLog) = n
            /\ walkPc = "raised" => walkLog[Len(walkLog)].status = "raised"

\* A walk of a two-record chain of a version 7 table returned after both.
C11_WitnessTwoRecords ==
    /\ walkPc = "returned"
    /\ vx_version = 7
    /\ StopsAt(2)
    /\ Len(walkLog) = 2
    /\ PassedRecord(1)
    /\ PassedRecord(2)
    /\ TypedChain(2)

=============================================================================
